---------------------------- MODULE Spec2Model ----------------------------
(***************************************************************************)
(* A model of notebook (src/src/main.rs): a Markdown renderer that turns   *)
(* fenced pikchr blocks into inline SVG, extracts a title from the first   *)
(* level-1 heading, expands a handlebars template and writes the result    *)
(* to a file, to stdout or to an HTTP response.                            *)
(***************************************************************************)
EXTENDS Integers, Sequences, FiniteSets, TLC

(***************************************************************************)
(* Bounds of the model.                                                    *)
(***************************************************************************)
\* The number of top-level blocks of a source document.
MaxBlocks == 2

\* The number of events of a stream that need not be well formed.
MaxRaw == 4

(***************************************************************************)
(* pulldown_cmark events (main.rs:3): Event, Tag, CodeBlockKind.           *)
(***************************************************************************)
Heading(level) == [t |-> "Heading", level |-> level]
Paragraph == [t |-> "Paragraph"]
Emphasis == [t |-> "Emphasis"]
Fenced(lang) == [c |-> "Fenced", lang |-> lang]
Indented == [c |-> "Indented"]
CodeBlock(kind) == [t |-> "CodeBlock", kind |-> kind]

Start(tag) == [k |-> "Start", tag |-> tag]
End(tag) == [k |-> "End", tag |-> tag]
Text(s) == [k |-> "Text", text |-> s]
Html(s) == [k |-> "Html", text |-> s]
Rule == [k |-> "Rule"]

(***************************************************************************)
(* The streams Parser::new_ext yields (main.rs:127), as the data model     *)
(* assumes them: Start and End nest, a code block holds one Text.          *)
(***************************************************************************)
Element(tag, inner) == <<Start(tag)>> \o inner \o <<End(tag)>>

HeadingBlocks ==
  { Element(Heading(1), <<Text("Title")>>),
    Element(Heading(1), <<>>),
    Element(Heading(1), Element(Emphasis, <<Text("Em")>>)),
    Element(Heading(2), <<Text("Sub")>>) }

FenceLabels == {"pikchr", "Pikchr", "pikchr x"}

DiagramBodies == {"box", "@"}

CodeBlocks ==
  { Element(CodeBlock(Fenced(l)), <<Text(b)>>) : l \in FenceLabels, b \in DiagramBodies }
    \cup { Element(CodeBlock(Indented), <<Text("box")>>) }

OtherBlocks ==
  { Element(Paragraph, <<Text("R&D")>>), <<Html("<hr>")>>, <<Rule>> }

Blocks == HeadingBlocks \cup CodeBlocks \cup OtherBlocks

RECURSIVE StreamsOf(_)
StreamsOf(n) ==
  IF n = 0 THEN { <<>> }
  ELSE LET shorter == StreamsOf(n - 1)
       IN shorter \cup { s \o b : s \in shorter, b \in Blocks }

Streams == StreamsOf(MaxBlocks)

\* Option<T>.
Some(v) == [some |-> TRUE, v |-> v]
NoneOpt == [some |-> FALSE]

\* Result<T, E>.
Ok(v) == [ok |-> TRUE, v |-> v]
Err(e) == [ok |-> FALSE, e |-> e]

(***************************************************************************)
(* The diagram engine, Pikchr::render (main.rs:220): an SVG string for a   *)
(* diagram it accepts, an error description for one it rejects.            *)
(***************************************************************************)
PikchrRender(text) ==
  IF text = "box" THEN Ok("<svg>" \o text \o "</svg>")
  ELSE Err("pikchr error: " \o text)

(***************************************************************************)
(* PikchrTransformer::next (main.rs:179-226) on the upstream iterator it,  *)
(* the events the parser has still to yield.  The result holds the item    *)
(* returned, the upstream iterator afterwards, the number of upstream      *)
(* pulls, and whether the call panicked (expect / unreachable!).           *)
(***************************************************************************)
\* A variant that folds the label's case.
IsPikchrFenceAnyCase(event) ==
  /\ event.k = "Start"
  /\ event.tag.t = "CodeBlock"
  /\ event.tag.kind.c = "Fenced"
  /\ event.tag.kind.lang \in {"pikchr", "Pikchr"}

IsPikchrFence(event) ==
  /\ event.k = "Start"
  /\ event.tag.t = "CodeBlock"
  /\ event.tag.kind.c = "Fenced"
  /\ event.tag.kind.lang = "pikchr"

\* A variant that emits the engine's error as raw HTML.
ReplacementHtmlOnly(text) ==
  LET r == PikchrRender(text)
  IN IF r.ok THEN Html(r.v) ELSE Html(r.e)

Replacement(text) ==
  LET r == PikchrRender(text)
  IN IF r.ok THEN Html(r.v) ELSE Text(r.e)

\* A variant that leaves the End event of a matching block upstream.
PikchrTransformerNextKeepsEnd(it) ==
  IF it = <<>>
  THEN [item |-> NoneOpt, iter |-> it, pulls |-> 1, panic |-> FALSE]
  ELSE IF ~IsPikchrFence(Head(it))
  THEN [item |-> Some(Head(it)), iter |-> Tail(it), pulls |-> 1, panic |-> FALSE]
  ELSE IF Len(it) < 2 \/ it[2].k # "Text"
  THEN [item |-> NoneOpt, iter |-> <<>>, pulls |-> 2, panic |-> TRUE]
  ELSE [item |-> Some(Replacement(it[2].text)), iter |-> SubSeq(it, 3, Len(it)),
        pulls |-> 2, panic |-> FALSE]

\* A variant that unwraps the engine's result.
PikchrTransformerNextUnwrap(it) ==
  IF it = <<>>
  THEN [item |-> NoneOpt, iter |-> it, pulls |-> 1, panic |-> FALSE]
  ELSE IF ~IsPikchrFence(Head(it))
  THEN [item |-> Some(Head(it)), iter |-> Tail(it), pulls |-> 1, panic |-> FALSE]
  ELSE IF Len(it) < 3 \/ it[2].k # "Text" \/ ~PikchrRender(it[2].text).ok
  THEN [item |-> NoneOpt, iter |-> <<>>, pulls |-> 3, panic |-> TRUE]
  ELSE [item |-> Some(Replacement(it[2].text)), iter |-> SubSeq(it, 4, Len(it)),
        pulls |-> 3, panic |-> FALSE]

PikchrTransformerNext(it) ==
  IF it = <<>>
  THEN [item |-> NoneOpt, iter |-> it, pulls |-> 1, panic |-> FALSE]
  ELSE IF ~IsPikchrFence(Head(it))
  THEN [item |-> Some(Head(it)), iter |-> Tail(it), pulls |-> 1, panic |-> FALSE]
  ELSE IF Len(it) < 2
  THEN [item |-> NoneOpt, iter |-> <<>>, pulls |-> 2, panic |-> TRUE]
  ELSE IF Len(it) < 3
  THEN [item |-> NoneOpt, iter |-> <<>>, pulls |-> 3, panic |-> TRUE]
  ELSE IF it[2].k # "Text"
  THEN [item |-> NoneOpt, iter |-> SubSeq(it, 4, Len(it)), pulls |-> 3, panic |-> TRUE]
  ELSE [item |-> Some(Replacement(it[2].text)), iter |-> SubSeq(it, 4, Len(it)),
        pulls |-> 3, panic |-> FALSE]

\* The iterator drained, as collect::<Vec<_>>() drains it (main.rs:129):
\* the events gathered, or a panic.
RECURSIVE Collect(_)
Collect(it) ==
  LET r == PikchrTransformerNext(it)
  IN IF r.panic THEN [panic |-> TRUE, events |-> <<>>]
     ELSE IF ~r.item.some THEN [panic |-> FALSE, events |-> <<>>]
     ELSE LET rest == Collect(r.iter)
          IN [panic |-> rest.panic, events |-> <<r.item.v>> \o rest.events]

(***************************************************************************)
(* extract_heading (main.rs:148-163).  HeadingStep is one turn of the loop *)
(* on one event: the flag afterwards and the value returned, if the turn   *)
(* returns.                                                                *)
(***************************************************************************)
\* A variant in which a Start of any other tag clears the flag.
HeadingStepClears(in_h1, event) ==
  IF event.k = "Start"
  THEN IF event.tag.t = "Heading"
       THEN [in_h1 |-> (event.tag.level = 1), ret |-> NoneOpt]
       ELSE [in_h1 |-> FALSE, ret |-> NoneOpt]
  ELSE IF in_h1 /\ event.k = "Text"
  THEN [in_h1 |-> in_h1, ret |-> Some(event.text)]
  ELSE [in_h1 |-> in_h1, ret |-> NoneOpt]

\* A variant in which the End of a heading clears the flag.
HeadingStepEndClears(in_h1, event) ==
  IF ~in_h1 /\ event.k = "Start"
  THEN IF event.tag.t = "Heading"
       THEN [in_h1 |-> (event.tag.level = 1), ret |-> NoneOpt]
       ELSE [in_h1 |-> in_h1, ret |-> NoneOpt]
  ELSE IF in_h1 /\ event.k = "Text"
  THEN [in_h1 |-> in_h1, ret |-> Some(event.text)]
  ELSE IF in_h1 /\ event.k = "End" /\ event.tag.t = "Heading"
  THEN [in_h1 |-> FALSE, ret |-> NoneOpt]
  ELSE [in_h1 |-> in_h1, ret |-> NoneOpt]

HeadingStep(in_h1, event) ==
  IF ~in_h1 /\ event.k = "Start"
  THEN IF event.tag.t = "Heading"
       THEN [in_h1 |-> (event.tag.level = 1), ret |-> NoneOpt]
       ELSE [in_h1 |-> in_h1, ret |-> NoneOpt]
  ELSE IF in_h1 /\ event.k = "Text"
  THEN [in_h1 |-> in_h1, ret |-> Some(event.text)]
  ELSE [in_h1 |-> in_h1, ret |-> NoneOpt]

RECURSIVE HeadingLoop(_, _)
HeadingLoop(in_h1, evs) ==
  IF evs = <<>> THEN NoneOpt
  ELSE LET r == HeadingStep(in_h1, Head(evs))
       IN IF r.ret.some THEN r.ret ELSE HeadingLoop(r.in_h1, Tail(evs))

extract_heading(evs) == HeadingLoop(FALSE, evs)

(***************************************************************************)
(* html::push_html (main.rs:133), the serializer: one fragment per event,  *)
(* text escaped, raw HTML as it is.                                        *)
(***************************************************************************)
EscapeHtml(s) ==
  CASE s = "R&D" -> "R&amp;D"
    [] s = "<hr>" -> "&lt;hr&gt;"
    [] OTHER -> s

TagName(tag) ==
  CASE tag.t = "Heading" -> IF tag.level = 1 THEN "h1" ELSE "h2"
    [] tag.t = "Paragraph" -> "p"
    [] tag.t = "Emphasis" -> "em"
    [] tag.t = "CodeBlock" -> "pre"

HtmlOf(event) ==
  CASE event.k = "Start" -> "<" \o TagName(event.tag) \o ">"
    [] event.k = "End" -> "</" \o TagName(event.tag) \o ">"
    [] event.k = "Text" -> EscapeHtml(event.text)
    [] event.k = "Html" -> event.text
    [] event.k = "Rule" -> "<hr />"

push_html(evs) == [i \in 1..Len(evs) |-> HtmlOf(evs[i])]

(***************************************************************************)
(* Handlebars::render_template (main.rs:140-141).  A template is a list of *)
(* segments: the placeholders, an unclosed expression (a syntax error),    *)
(* and literal text.  The document is the list of expanded fragments.      *)
(***************************************************************************)
DefaultTemplate == << "<title>", "{{{title}}}", "</title>", "{{{content}}}" >>
EscapedTemplate == << "{{title}}", "<body>", "{{{content}}}" >>
BrokenTemplate == << "<title>", "{{#if" >>

Templates == { DefaultTemplate, EscapedTemplate, BrokenTemplate }

TemplateError == "template syntax error"

RECURSIVE Expand(_, _)
Expand(template, context) ==
  IF template = <<>> THEN <<>>
  ELSE LET seg == Head(template)
           rest == Expand(Tail(template), context)
       IN CASE seg = "{{{title}}}" -> <<context.title>> \o rest
            [] seg = "{{title}}" -> <<EscapeHtml(context.title)>> \o rest
            [] seg = "{{{content}}}" -> context.content \o rest
            [] OTHER -> <<seg>> \o rest

render_template(template, context) ==
  IF \E i \in 1..Len(template) : template[i] = "{{#if"
  THEN Err(TemplateError)
  ELSE Ok(Expand(template, context))

\* A variant that names a document without a heading.
ContextUntitled(heading, content) ==
  [title |-> IF heading.some THEN heading.v ELSE "Untitled", content |-> content]

\* The context of main.rs:135-138.
Context(heading, content) ==
  [title |-> IF heading.some THEN heading.v ELSE "", content |-> content]

IoError == "io error"

(***************************************************************************)
(* State.                                                                  *)
(*   input     the events the parser yields for the source (main.rs:127)   *)
(*   template  the template text (Params.template)                         *)
(*   iter      PikchrTransformer.iter: the events still to be pulled       *)
(*   events    the Vec collected at main.rs:129                            *)
(*   pulls     upstream pulls made by the last call of next                *)
(*   in_h1, hpos, heading   extract_heading's flag, position and result    *)
(*   content, rendered      the serialized body, the expanded template     *)
(*   sink      what the output has received                                *)
(*   result    what render_html returned, once it has                      *)
(*   pc        the position in the program                                 *)
(*   srcFile   the input file: its parsed contents, or none when missing   *)
(*   output    Params.output, the --output option                          *)
(*   outFile   the file named by --output: "absent", "old" (there before   *)
(*             the run, untouched) or "created" (created or truncated by   *)
(*             File::create; it then holds what the sink has received)     *)
(*   exit      the status main has exited with, once it has                *)
(*   files     the regular files of the served working directory           *)
(*   served    the last request served, the file system it met, the        *)
(*             response it got, the status of the request before it and    *)
(*             whether the input file changed between the two, whether it  *)
(*             repeats the request before it on an unchanged file system   *)
(*             and whether the two responses agree                         *)
(*   argv      the command line as getopts sees it (main.rs:25-33)         *)
(*   tmplFile  the file named by --template: its contents, or none         *)
(***************************************************************************)
VARIABLES input, template, iter, events, pulls, in_h1, hpos, heading,
          content, rendered, sink, result, pc,
          srcFile, output, outFile, exit, files, served, argv, tmplFile

renderVars == << input, template, iter, events, pulls, in_h1, hpos, heading,
                 content, rendered, sink, result, pc >>

envVars == << srcFile, output, outFile, exit, files, served, argv, tmplFile >>

vars == << renderVars, envVars >>

\* render_html entered with a parsed source and a template (main.rs:116-128).
RenderStart(stream, tmpl) ==
  /\ input = stream
  /\ template = tmpl
  /\ iter = stream
  /\ events = <<>>
  /\ pulls = 0
  /\ in_h1 = FALSE
  /\ hpos = 1
  /\ heading = NoneOpt
  /\ content = <<>>
  /\ rendered = <<>>
  /\ sink = <<>>
  /\ result = NoneOpt
  /\ pc = "collect"

\* No request served yet.
NoRequest == [some |-> FALSE]

\* A command line naming an input and, when with is true, a template file
\* (main.rs:28-31, 35-36).
FileArgs(with) ==
  [valid |-> TRUE, input |-> TRUE, template |-> with, serve |-> "none", help |-> FALSE]

\* The command line and the template file behind a template text main holds.
ArgsFor(tmpl) ==
  /\ argv = FileArgs(tmpl # DefaultTemplate)
  /\ tmplFile = IF tmpl # DefaultTemplate THEN Some(tmpl) ELSE NoneOpt

\* render_html alone, called with any parsed source, template and sink.
Init ==
  /\ \E stream \in Streams, tmpl \in Templates : RenderStart(stream, tmpl)
  /\ srcFile = NoneOpt
  /\ output = NoneOpt
  /\ outFile = "absent"
  /\ exit = NoneOpt
  /\ files = {}
  /\ served = NoRequest
  /\ ArgsFor(template)

\* One call of PikchrTransformer::next made by collect (main.rs:129).
TransformerNext ==
  /\ pc = "collect"
  /\ LET r == PikchrTransformerNext(iter)
     IN /\ iter' = r.iter
        /\ pulls' = r.pulls
        /\ events' = IF ~r.panic /\ r.item.some THEN Append(events, r.item.v) ELSE events
        /\ pc' = IF r.panic THEN "panicked"
                 ELSE IF r.item.some THEN "collect" ELSE "heading"
  /\ UNCHANGED << input, template, in_h1, hpos, heading, content, rendered, sink, result >>
  /\ UNCHANGED envVars

\* One turn of extract_heading's loop, or its end (main.rs:150-162).
ExtractHeadingStep ==
  /\ pc = "heading"
  /\ IF hpos > Len(events)
     THEN /\ heading' = NoneOpt
          /\ pc' = "push"
          /\ UNCHANGED << in_h1, hpos >>
     ELSE LET r == HeadingStep(in_h1, events[hpos])
          IN /\ in_h1' = r.in_h1
             /\ heading' = r.ret
             /\ hpos' = IF r.ret.some THEN hpos ELSE hpos + 1
             /\ pc' = IF r.ret.some THEN "push" ELSE "heading"
  /\ UNCHANGED << input, template, iter, events, pulls, content, rendered, sink, result >>
  /\ UNCHANGED envVars

\* main.rs:132-133.
PushHtml ==
  /\ pc = "push"
  /\ content' = push_html(events)
  /\ pc' = "template"
  /\ UNCHANGED << input, template, iter, events, pulls, in_h1, hpos, heading,
                  rendered, sink, result >>
  /\ UNCHANGED envVars

\* The segments of a template before its first unclosed expression.
RECURSIVE LiteralPrefix(_)
LiteralPrefix(tmpl) ==
  IF tmpl = <<>> \/ Head(tmpl) = "{{#if" THEN <<>>
  ELSE <<Head(tmpl)>> \o LiteralPrefix(Tail(tmpl))

\* A variant that expands the template straight into the sink, so that what
\* precedes the error has been written when the error is met.
RenderTemplateToWrite ==
  /\ pc = "template"
  /\ LET r == render_template(template, Context(heading, content))
     IN IF r.ok
        THEN /\ rendered' = r.v
             /\ pc' = "write"
             /\ UNCHANGED << result, sink >>
        ELSE /\ result' = Some(Err(r.e))
             /\ pc' = "failed"
             /\ sink' = sink \o LiteralPrefix(template)
             /\ UNCHANGED rendered
  /\ UNCHANGED << input, template, iter, events, pulls, in_h1, hpos, heading, content >>
  /\ UNCHANGED envVars

\* main.rs:135-141: the context, the template expanded, an error returned by ?.
RenderTemplate ==
  /\ pc = "template"
  /\ LET r == render_template(template, Context(heading, content))
     IN IF r.ok
        THEN /\ rendered' = r.v
             /\ pc' = "write"
             /\ UNCHANGED result
        ELSE /\ result' = Some(Err(r.e))
             /\ pc' = "failed"
             /\ UNCHANGED rendered
  /\ UNCHANGED << input, template, iter, events, pulls, in_h1, hpos, heading,
                  content, sink >>
  /\ UNCHANGED envVars

\* main.rs:143-144: one call of io::Write::write, which accepts a prefix of
\* the buffer, and Ok(()) whatever the length accepted.
OutputWrite ==
  /\ pc = "write"
  /\ \E n \in 0..Len(rendered) :
       sink' = sink \o SubSeq(rendered, 1, n)
  /\ result' = Some(Ok("unit"))
  /\ pc' = "done"
  /\ UNCHANGED << input, template, iter, events, pulls, in_h1, hpos, heading,
                  content, rendered >>
  /\ UNCHANGED envVars

\* main.rs:143: write fails, nothing accepted, the error returned by ?.
OutputWriteFails ==
  /\ pc = "write"
  /\ result' = Some(Err(IoError))
  /\ pc' = "failed"
  /\ UNCHANGED << input, template, iter, events, pulls, in_h1, hpos, heading,
                  content, rendered, sink >>
  /\ UNCHANGED envVars

Next ==
  \/ TransformerNext
  \/ ExtractHeadingStep
  \/ PushHtml
  \/ RenderTemplate
  \/ OutputWrite
  \/ OutputWriteFails

Spec == Init /\ [][Next]_vars

(***************************************************************************)
(* The transformer's contract, stated on the input stream alone.           *)
(***************************************************************************)
\* A matching triple starts at position i of stream E.
MatchesTriple(E, i) ==
  /\ i + 2 <= Len(E)
  /\ E[i] = Start(CodeBlock(Fenced("pikchr")))
  /\ E[i + 1].k = "Text"
  /\ E[i + 2].k = "End"

TripleStarts(E) == { i \in 1..Len(E) : MatchesTriple(E, i) }

InTriple(E, j) == \E i \in TripleStarts(E) : i <= j /\ j <= i + 2

\* Where the event at position j of E, or the replacement of the triple
\* starting at j, stands in the transformed stream.
PositionOf(E, j) == j - 2 * Cardinality({ i \in TripleStarts(E) : i < j })

\* The events of the input pulled so far.
Consumed == Len(input) - Len(iter)

Collected == pc \notin {"collect", "panicked"}

\* C1: every event of the input that is not part of a matching pikchr triple
\* is emitted unchanged at its corresponding position, hence in the input's
\* order: as soon as it has been pulled, and for good.
C1_PassThrough ==
  \A j \in 1..Len(input) :
    (j <= Consumed /\ ~InTriple(input, j)) =>
      /\ PositionOf(input, j) <= Len(events)
      /\ events[PositionOf(input, j)] = input[j]

\* C1 witness: a stream with a matching triple, a fenced block whose label
\* differs from pikchr in case and an indented code block, all transformed.
C1_Witness ==
  /\ Collected
  /\ TripleStarts(input) # {}
  /\ \E j \in 1..Len(input) :
       /\ input[j] \in { Start(CodeBlock(Fenced("Pikchr"))),
                         Start(CodeBlock(Fenced("pikchr x"))),
                         Start(CodeBlock(Indented)) }
       /\ \E i \in TripleStarts(input) : i < j

\* C2: the triple starting at i is replaced by one event at its position:
\* Html(svg) when the engine succeeds on the body, Text(message) when it
\* fails; the event after it is the one that followed the triple.
C2_Replaced ==
  \A i \in TripleStarts(input) :
    i + 2 <= Consumed =>
      LET p == PositionOf(input, i)
          r == PikchrRender(input[i + 1].text)
      IN /\ p <= Len(events)
         /\ r.ok => events[p] = Html(r.v)
         /\ ~r.ok => events[p] = Text(r.e)
         /\ events[p] \notin { input[i], input[i + 1], input[i + 2] }
         /\ (i + 3 <= Consumed /\ ~InTriple(input, i + 3)) =>
               events[p + 1] = input[i + 3]

\* C2 witness: a stream with a triple the engine accepts and one it rejects,
\* transformed.
C2_Witness ==
  /\ Collected
  /\ \E i, j \in TripleStarts(input) :
       /\ PikchrRender(input[i + 1].text).ok
       /\ ~PikchrRender(input[j + 1].text).ok

\* The payloads the engine produces.
EngineOutputs ==
  { PikchrRender(b).v : b \in { x \in DiagramBodies : PikchrRender(x).ok } }
    \cup { PikchrRender(b).e : b \in { x \in DiagramBodies : ~PikchrRender(x).ok } }

ReplacementEvents(T) ==
  { p \in 1..Len(T) : T[p].k \in {"Html", "Text"} /\ T[p].text \in EngineOutputs }

\* C3: with k matching triples in the input, the transformed stream has
\* |E| - 2k events, k of them replacement events.
C3_Length ==
  Collected =>
    LET k == Cardinality(TripleStarts(input))
    IN /\ Len(events) = Len(input) - 2 * k
       /\ Len(events) <= Len(input)
       /\ Cardinality(ReplacementEvents(events)) = k

\* C3 witness: a transformed stream with two matching triples.
C3_Witness ==
  /\ Collected
  /\ Cardinality(TripleStarts(input)) = 2
  /\ Len(events) = Len(input) - 4

(***************************************************************************)
(* Diagram errors.                                                         *)
(***************************************************************************)
FailingTriples(E) == { i \in TripleStarts(E) : ~PikchrRender(E[i + 1].text).ok }

Returned == result.some

\* C4: a diagram the engine rejects never fails the render: no call panics,
\* render_html returns an error only for a template or a sink error, every
\* event after the failing block is emitted, every pikchr block is replaced
\* by its own engine result, and the document handed to the sink holds the
\* error message as escaped text.
C4_DiagramErrorContained ==
  FailingTriples(input) # {} =>
    /\ pc # "panicked"
    /\ (Returned /\ ~result.v.ok) =>
          \/ result.v.e = TemplateError /\ template = BrokenTemplate
          \/ result.v.e = IoError
    /\ (pc = "failed" /\ template # BrokenTemplate) => result.v.e = IoError
    /\ Collected =>
         \A f \in FailingTriples(input) :
           /\ events[PositionOf(input, f)] = Text(PikchrRender(input[f + 1].text).e)
           /\ \A j \in (f + 3)..Len(input) :
                /\ ~InTriple(input, j) => events[PositionOf(input, j)] = input[j]
                /\ j \in TripleStarts(input) =>
                     events[PositionOf(input, j)] = Replacement(input[j + 1].text)
    /\ pc \in {"write", "done"} =>
         \A f \in FailingTriples(input) :
           \E q \in 1..Len(rendered) :
             rendered[q] = EscapeHtml(PikchrRender(input[f + 1].text).e)

\* C4 witness: a source whose first block fails in the engine and whose
\* second succeeds, rendered with success and written in full.
C4_Witness ==
  /\ pc = "done"
  /\ result = Some(Ok("unit"))
  /\ sink = rendered
  /\ \E f \in FailingTriples(input) :
       \E i \in TripleStarts(input) \ FailingTriples(input) : f < i

(***************************************************************************)
(* The heading extractor.                                                  *)
(***************************************************************************)
HeadingDone == pc \in {"push", "template", "write", "done", "failed"}

C6_TextInsideH1 ==
  (HeadingDone /\ heading.some) =>
    \E i \in 1..Len(events) :
      /\ events[i] = Start(Heading(1))
      /\ \E j \in (i + 1)..Len(events) :
           /\ events[j] = Text(heading.v)
           /\ \A m \in (i + 1)..(j - 1) : events[m] # End(Heading(1))

(***************************************************************************)
(* Serve mode: web_output (main.rs:66-114).                                *)
(***************************************************************************)
\* render_html as a whole, writing into a Vec<u8> (main.rs:87-88), whose
\* write takes the whole buffer and never fails.
render_html(stream, tmpl) ==
  LET c == Collect(stream)
  IN IF c.panic THEN [panic |-> TRUE, result |-> Err("panic"), buffer |-> <<>>]
     ELSE LET r == render_template(tmpl, Context(extract_heading(c.events),
                                                 push_html(c.events)))
          IN IF r.ok THEN [panic |-> FALSE, result |-> Ok("unit"), buffer |-> r.v]
             ELSE [panic |-> FALSE, result |-> Err(r.e), buffer |-> <<>>]

\* main.rs:67-71.
not_found == [status |-> 404, ctype |-> "text/html", body |-> <<"File not found">>]

\* main.rs:73-77.
bad_request(err) == [status |-> 400, ctype |-> "text/html", body |-> <<err>>]

\* A handler that panicked: the connection is closed without a response.
Aborted == [status |-> 0, ctype |-> "", body |-> <<>>]

\* A variant that answers a render error like a missing source.
documentHidesRenderError(src, tmpl) ==
  IF ~src.some THEN not_found
  ELSE LET r == render_html(src.v, tmpl)
       IN IF r.panic THEN Aborted
          ELSE IF r.result.ok
          THEN [status |-> 200, ctype |-> "text/html", body |-> r.buffer]
          ELSE not_found

\* The document closure (main.rs:80-96) on the input file as it is now.
document(src, tmpl) ==
  IF ~src.some THEN not_found
  ELSE LET r == render_html(src.v, tmpl)
       IN IF r.panic THEN Aborted
          ELSE IF r.result.ok
          THEN [status |-> 200, ctype |-> "text/html", body |-> r.buffer]
          ELSE bad_request(r.result.e)

\* A variant that serves the document at the root whatever --output is.
fallbackRootAlways(tail, out, src, tmpl) ==
  IF tail = "" THEN document(src, tmpl)
  ELSE IF out.some /\ tail = out.v THEN document(src, tmpl)
  ELSE not_found

\* The fallback filter (main.rs:99-107).
fallback(tail, out, src, tmpl) ==
  IF tail = "" /\ ~out.some THEN document(src, tmpl)
  ELSE IF out.some /\ tail = out.v THEN document(src, tmpl)
  ELSE not_found

\* warp::fs::dir(".") (main.rs:109): the file a path names, index.html for
\* the directory itself.
StaticTarget(path) == IF path = "" THEN "index.html" ELSE path

StaticReply(file) == [status |-> 200, ctype |-> "file", body |-> <<file>>]

\* warp::get().and(warp::fs::dir(".")) (main.rs:109): a GET of an existing file.
assets(method, path, dir) ==
  IF method = "GET" /\ StaticTarget(path) \in dir
  THEN Some(StaticReply(StaticTarget(path)))
  ELSE NoneOpt

\* assets.or(fallback) (main.rs:110).
routes(method, path, dir, out, src, tmpl) ==
  IF assets(method, path, dir).some THEN assets(method, path, dir).v
  ELSE fallback(path, out, src, tmpl)

Methods == {"GET", "POST"}
RequestPaths == {"", "report.html", "index.html", "missing"}
OutputNames == {"report.html", "index.html", ""}
DirFiles == {"report.html", "index.html"}

\* The contents the input file takes while the server runs.
ServeDocs ==
  { <<>> } \cup
  { Element(Heading(1), <<Text("Title")>>)
      \o Element(CodeBlock(Fenced("pikchr")), <<Text(b)>>) : b \in DiagramBodies }

\* The render variables while no render_html is in steps.
RenderIdle(tmpl) ==
  /\ input = <<>>
  /\ template = tmpl
  /\ iter = <<>>
  /\ events = <<>>
  /\ pulls = 0
  /\ in_h1 = FALSE
  /\ hpos = 1
  /\ heading = NoneOpt
  /\ content = <<>>
  /\ rendered = <<>>
  /\ sink = <<>>
  /\ result = NoneOpt

\* The server started (main.rs:41-51, 112): the template was read by main,
\* the input file and the directory are as they happen to be.
InitServe ==
  /\ \E tmpl \in Templates : RenderIdle(tmpl)
  /\ pc = "serving"
  /\ srcFile \in { NoneOpt } \cup { Some(d) : d \in ServeDocs }
  /\ output \in { NoneOpt } \cup { Some(n) : n \in OutputNames }
  /\ outFile = "absent"
  /\ exit = NoneOpt
  /\ files \in SUBSET DirFiles
  /\ served = NoRequest
  /\ ArgsFor(template)

Served(method, path, resp) ==
  [some |-> TRUE, method |-> method, path |-> path, src |-> srcFile, dir |-> files,
   tmpl |-> tmplFile,
   prev |-> IF served.some THEN served.resp.status ELSE 0,
   edited |-> served.some /\ served.src # srcFile,
   repeat |-> /\ served.some
              /\ served.method = method
              /\ served.path = path
              /\ served.src = srcFile
              /\ served.dir = files
              /\ served.tmpl = tmplFile,
   agree |-> served.some /\ served.resp = resp,
   resp |-> resp]

\* A variant whose response buffer is shared by the requests: a document is
\* appended to the document served before it.
RequestSharedBuffer ==
  /\ pc = "serving"
  /\ \E method \in Methods, path \in RequestPaths :
       LET r == routes(method, path, files, output, srcFile, template)
       IN served' = Served(method, path,
                           IF served.some /\ served.resp.ctype = "text/html"
                                /\ served.resp.status = 200 /\ r.status = 200
                                /\ r.ctype = "text/html"
                           THEN [r EXCEPT !.body = served.resp.body \o r.body]
                           ELSE r)
  /\ UNCHANGED << argv, tmplFile, renderVars, srcFile, output, outFile, exit, files >>

\* A variant that reads the template file for every request.
RequestReloadsTemplate ==
  /\ pc = "serving"
  /\ \E method \in Methods, path \in RequestPaths :
       served' = Served(method, path,
                        routes(method, path, files, output, srcFile,
                               IF tmplFile.some THEN tmplFile.v ELSE template))
  /\ UNCHANGED << argv, tmplFile, renderVars, srcFile, output, outFile, exit, files >>

\* A variant that writes the document to the file named by --output.
RequestCreatesOutput ==
  /\ pc = "serving"
  /\ \E method \in Methods, path \in RequestPaths :
       served' = Served(method, path,
                        routes(method, path, files, output, srcFile, template))
  /\ outFile' = IF output.some THEN "created" ELSE outFile
  /\ UNCHANGED << argv, tmplFile, renderVars, srcFile, output, exit, files >>

\* A variant that renders the source read for the previous request.
RequestCached ==
  /\ pc = "serving"
  /\ \E method \in Methods, path \in RequestPaths :
       served' = Served(method, path,
                        routes(method, path, files, output,
                               IF served.some /\ served.src.some THEN served.src
                               ELSE srcFile,
                               template))
  /\ UNCHANGED << argv, tmplFile, renderVars, srcFile, output, outFile, exit, files >>

\* One request served by routes (main.rs:110-112).
Request ==
  /\ pc = "serving"
  /\ \E method \in Methods, path \in RequestPaths :
       served' = Served(method, path,
                        routes(method, path, files, output, srcFile, template))
  /\ UNCHANGED << argv, tmplFile, renderVars, srcFile, output, outFile, exit, files >>

\* The environment: the input file edited or removed, files of the working
\* directory stored or deleted, between requests.
EditSource ==
  /\ pc = "serving"
  /\ \E d \in ServeDocs : srcFile' = Some(d) /\ srcFile' # srcFile
  /\ UNCHANGED << argv, tmplFile, renderVars, output, outFile, exit, files, served >>

RemoveSource ==
  /\ pc = "serving"
  /\ srcFile.some
  /\ srcFile' = NoneOpt
  /\ UNCHANGED << argv, tmplFile, renderVars, output, outFile, exit, files, served >>

StoreFile ==
  /\ pc = "serving"
  /\ \E f \in DirFiles \ files : files' = files \cup {f}
  /\ UNCHANGED << argv, tmplFile, renderVars, srcFile, output, outFile, exit, served >>

DeleteFile ==
  /\ pc = "serving"
  /\ \E f \in files : files' = files \ {f}
  /\ UNCHANGED << argv, tmplFile, renderVars, srcFile, output, outFile, exit, served >>

NextServe ==
  \/ Request
  \/ EditSource
  \/ RemoveSource
  \/ StoreFile
  \/ DeleteFile

SpecServe == InitServe /\ [][NextServe]_vars

(***************************************************************************)
(* Serve mode: the claims.                                                 *)
(***************************************************************************)
\* The last request was left to the fallback handler: it was no GET of a
\* file of the directory.
ReachedFallback ==
  /\ served.some
  /\ ~(served.method = "GET"
        /\ (IF served.path = "" THEN "index.html" ELSE served.path) \in served.dir)

\* The path tail names the document.
NamesDocument(path) ==
  \/ path = "" /\ ~output.some
  \/ output.some /\ path = output.v

\* The response carrying the render of the source the last request met.
FreshDocument ==
  [status |-> 200, ctype |-> "text/html",
   body |-> render_html(served.src.v, template).buffer]

FileNotFound == [status |-> 404, ctype |-> "text/html", body |-> <<"File not found">>]

Renders == served.src.some /\ template # BrokenTemplate

C8_AlwaysFresh ==
  (served.some /\ served.method = "GET" /\ Renders) =>
    /\ NamesDocument(served.path) => served.resp = FreshDocument
    /\ (output.some /\ served.path = "") => served.resp.status = 404

\* No file of the directory answers the request in place of the fallback.
Unshadowed ==
  (IF served.path = "" THEN "index.html" ELSE served.path) \notin served.dir

\* C8 amended: every GET of the document path that no file of the directory
\* shadows gets a render of the source as it is at the time of the request,
\* and with a non-empty --output NAME an unshadowed GET of the root gets 404.
C8_FreshUnlessShadowed ==
  (served.some /\ served.method = "GET" /\ Renders /\ Unshadowed) =>
    /\ NamesDocument(served.path) => served.resp = FreshDocument
    /\ (output.some /\ output.v # "" /\ served.path = "") => served.resp = FileNotFound

\* C8 witness: a GET of /report.html answered with the render of the source
\* it met, the source having been edited since the request before it.
C8_Witness ==
  /\ served.some
  /\ served.method = "GET"
  /\ output = Some("report.html")
  /\ served.path = "report.html"
  /\ Unshadowed
  /\ served.prev = 200
  /\ served.src = Some(Element(Heading(1), <<Text("Title")>>)
                         \o Element(CodeBlock(Fenced("pikchr")), <<Text("@")>>))
  /\ served.edited
  /\ served.resp = FreshDocument

\* The last request ran the document closure.
DocumentRequest == ReachedFallback /\ NamesDocument(served.path)

\* C9: a document request ends in 404 when the source cannot be read, in 400
\* with the error message as body when rendering fails, in 200 text/html
\* with the rendered document otherwise; whatever the previous request
\* ended in, and with the server still serving.
C9_Outcomes ==
  DocumentRequest =>
    /\ pc = "serving"
    /\ served.resp.status \in {200, 400, 404}
    /\ ~served.src.some => served.resp = FileNotFound
    /\ (served.src.some /\ template = BrokenTemplate) =>
          served.resp = [status |-> 400, ctype |-> "text/html",
                         body |-> <<TemplateError>>]
    /\ Renders => served.resp = FreshDocument

\* C9 witness: a document request answered 200 right after one answered 404.
C9_Witness ==
  /\ DocumentRequest
  /\ served.prev = 404
  /\ served.resp.status = 200

(***************************************************************************)
(* File mode: file_output (main.rs:56-63) and main's exit.                 *)
(***************************************************************************)
\* The contents of the input file in file mode.
FileDocs == StreamsOf(1)

\* file_output entered (main.rs:52): the parameters are set, the input file
\* and the file named by --output are as they happen to be.
InitFile ==
  /\ \E tmpl \in Templates : RenderIdle(tmpl)
  /\ pc = "read"
  /\ srcFile \in { NoneOpt } \cup { Some(d) : d \in FileDocs }
  /\ output \in { NoneOpt, Some("report.html") }
  /\ outFile \in { "absent", "old" }
  /\ exit = NoneOpt
  /\ files = {}
  /\ served = NoRequest
  /\ ArgsFor(template)

\* A variant that opens the output before it reads the input.
ReadInputAfterCreate ==
  /\ pc = "read"
  /\ outFile' = IF output.some THEN "created" ELSE outFile
  /\ IF srcFile.some
     THEN /\ input' = srcFile.v
          /\ pc' = "create"
          /\ UNCHANGED result
     ELSE /\ result' = Some(Err(IoError))
          /\ pc' = "failed"
          /\ UNCHANGED input
  /\ UNCHANGED << template, iter, events, pulls, in_h1, hpos, heading,
                  content, rendered, sink >>
  /\ UNCHANGED << srcFile, output, exit, files, served, argv, tmplFile >>

\* main.rs:57: the input read, or the error returned by ?.
ReadInput ==
  /\ pc = "read"
  /\ IF srcFile.some
     THEN /\ input' = srcFile.v
          /\ pc' = "create"
          /\ UNCHANGED result
     ELSE /\ result' = Some(Err(IoError))
          /\ pc' = "failed"
          /\ UNCHANGED input
  /\ UNCHANGED << template, iter, events, pulls, in_h1, hpos, heading,
                  content, rendered, sink >>
  /\ UNCHANGED envVars

\* main.rs:58-62, 127-128: the output opened (the named file created or
\* truncated, or stdout) and render_html entered on the parsed input.
CreateOutput ==
  /\ pc = "create"
  /\ outFile' = IF output.some THEN "created" ELSE outFile
  /\ iter' = input
  /\ pc' = "collect"
  /\ UNCHANGED << input, template, events, pulls, in_h1, hpos, heading,
                  content, rendered, sink, result >>
  /\ UNCHANGED << srcFile, output, exit, files, served, argv, tmplFile >>

\* main.rs:59: File::create fails, the error returned by ?.
CreateOutputFails ==
  /\ pc = "create"
  /\ output.some
  /\ result' = Some(Err(IoError))
  /\ pc' = "failed"
  /\ UNCHANGED << input, template, iter, events, pulls, in_h1, hpos, heading,
                  content, rendered, sink >>
  /\ UNCHANGED envVars

\* main returns the Result (main.rs:50-54): status 0 for Ok, 1 for Err.
Exit ==
  /\ pc \in {"done", "failed", "usage"}
  /\ ~exit.some
  /\ exit' = Some(IF result.v.ok THEN 0 ELSE 1)
  /\ UNCHANGED renderVars
  /\ UNCHANGED << srcFile, output, outFile, files, served, argv, tmplFile >>

NextFile ==
  \/ ReadInput
  \/ CreateOutput
  \/ CreateOutputFails
  \/ TransformerNext
  \/ ExtractHeadingStep
  \/ PushHtml
  \/ RenderTemplate
  \/ OutputWrite
  \/ OutputWriteFails
  \/ Exit

SpecFile == InitFile /\ [][NextFile]_vars

\* The run has failed.
RunFailed == pc = "failed" \/ (exit.some /\ exit.v # 0)

\* C10: in file mode, whenever the run fails the sink has received no byte,
\* and whatever the sink has received it received after the whole document
\* was rendered: it is the beginning of the expanded template.
C10_NoPartialOutput ==
  /\ RunFailed => sink = <<>>
  /\ sink # <<>> =>
       /\ pc = "done"
       /\ render_template(template, Context(heading, content)) = Ok(rendered)
       /\ Len(sink) <= Len(rendered)
       /\ sink = SubSeq(rendered, 1, Len(sink))

\* C10 witness: a run that failed on the template after the output file was
\* created, and exited with a non-zero status.
C10_Witness ==
  /\ pc = "failed"
  /\ result = Some(Err(TemplateError))
  /\ outFile = "created"
  /\ exit = Some(1)
  /\ events # <<>>

(***************************************************************************)
(* The template binder.                                                    *)
(***************************************************************************)
\* The title bound for the heading extracted.
BoundTitle == IF heading.some THEN heading.v ELSE ""

\* The title as an escaped placeholder shows it.
ShownEscaped(title) ==
  CASE title = "R&D" -> "R&amp;D"
    [] OTHER -> title

\* C13: the template is expanded with title bound to the extracted string,
\* or to the empty string when none was extracted, and content bound to the
\* serialized body; without a heading the render still reaches the write
\* and fails only if the template or the sink does.
C13_TitleBinding ==
  /\ pc \in {"template", "write", "done", "failed"} => Len(content) = Len(events)
  /\ (pc \in {"write", "done"} /\ template = DefaultTemplate) =>
        rendered = << "<title>", BoundTitle, "</title>" >> \o content
  /\ (pc \in {"write", "done"} /\ template = EscapedTemplate) =>
        rendered = << ShownEscaped(BoundTitle), "<body>" >> \o content
  /\ (pc = "failed" /\ ~heading.some) =>
        \/ template = BrokenTemplate
        \/ result = Some(Err(IoError))
  /\ (pc \in {"write", "done"} /\ input = <<>>) =>
        /\ content = <<>>
        /\ ~heading.some
        /\ template = DefaultTemplate => rendered = << "<title>", "", "</title>" >>

\* C13 witness: the empty source rendered with the default template and
\* written in full.
C13_Witness ==
  /\ pc = "done"
  /\ input = <<>>
  /\ template = DefaultTemplate
  /\ sink = << "<title>", "", "</title>" >>

(***************************************************************************)
(* The transformer as a filter.                                            *)
(***************************************************************************)
\* C16: a call of next pulls one upstream event when that event does not
\* open a pikchr fence and three when it does, takes them from the front of
\* upstream in order, leaves the rest upstream untouched, emits one event,
\* and returns end-of-stream exactly when upstream is exhausted at its start.
C16_BoundedLookahead ==
  [][ pc = "collect" =>
        LET n == Len(iter) - Len(iter')
        IN /\ n >= 0
           /\ iter' = SubSeq(iter, n + 1, Len(iter))
           /\ (iter = <<>>) <=> (pc' = "heading")
           /\ iter = <<>> => events' = events
           /\ iter # <<>> =>
                /\ n = (IF Head(iter) = Start(CodeBlock(Fenced("pikchr"))) THEN 3 ELSE 1)
                /\ pulls' = n
                /\ Len(events') = Len(events) + 1
                /\ SubSeq(events', 1, Len(events)) = events
                /\ n = 1 => events'[Len(events')] = Head(iter)
                /\ pc' = "collect" ]_vars

\* C16 witness: a call that pulled three events has returned, after calls
\* that pulled one each.
C16_Witness ==
  /\ pc = "collect"
  /\ pulls = 3
  /\ Len(events) >= 2
  /\ Consumed = Len(events) + 2

(***************************************************************************)
(* The heading extractor's flag.                                           *)
(***************************************************************************)
FirstH1(T) ==
  LET H == { i \in 1..Len(T) : T[i] = Start(Heading(1)) }
  IN IF H = {} THEN 0 ELSE CHOOSE i \in H : \A h \in H : i <= h

FirstTextAfter(T, i) ==
  LET J == { j \in (i + 1)..Len(T) : T[j].k = "Text" }
  IN IF J = {} THEN NoneOpt
     ELSE Some(T[CHOOSE j \in J : \A m \in J : j <= m].text)

C18_AllBytesWritten ==
  (pc = "done" /\ result = Some(Ok("unit"))) => sink = rendered

(***************************************************************************)
(* render_html on streams that need not be well formed: what next does     *)
(* when the parser breaks its contract (main.rs:204-217).                  *)
(***************************************************************************)
RawEvents ==
  { Start(CodeBlock(Fenced("pikchr"))), Text("box"),
    End(CodeBlock(Fenced("pikchr"))), Rule }

RECURSIVE RawStreamsOf(_)
RawStreamsOf(n) ==
  IF n = 0 THEN { <<>> }
  ELSE LET shorter == RawStreamsOf(n - 1)
       IN shorter \cup { Append(s, e) : s \in shorter, e \in RawEvents }

InitRaw ==
  /\ \E stream \in RawStreamsOf(MaxRaw), tmpl \in Templates : RenderStart(stream, tmpl)
  /\ srcFile = NoneOpt
  /\ output = NoneOpt
  /\ outFile = "absent"
  /\ exit = NoneOpt
  /\ files = {}
  /\ served = NoRequest
  /\ ArgsFor(template)

SpecRaw == InitRaw /\ [][Next]_vars

\* The first position of E that opens a pikchr fence, 0 when none does.
FirstFence(E) ==
  LET F == { i \in 1..Len(E) : E[i] = Start(CodeBlock(Fenced("pikchr"))) }
  IN IF F = {} THEN 0 ELSE CHOOSE i \in F : \A f \in F : i <= f

\* The fence opened at i is not followed by a Text and then an End.
BrokenFence(E, i) ==
  ~(/\ i + 2 <= Len(E)
    /\ E[i + 1].k = "Text"
    /\ E[i + 2].k = "End")

\* C15: when the first pikchr fence of the stream is not followed by a Text
\* and then an End, the call of next that pulls it panics: it emits no
\* replacement and drops no event.
C15_AbortsOnBrokenFence ==
  LET i == FirstFence(input)
  IN (i # 0 /\ BrokenFence(input, i) /\ Consumed >= i) => pc = "panicked"

(***************************************************************************)
(* main (main.rs:24-54): the command line parsed, the template loaded,     *)
(* the mode chosen.                                                        *)
(***************************************************************************)
ArgError == "argument error"

\* The command lines: whether getopts accepts the options, whether a
\* positional input is given, whether --template is given, --serve absent
\* or with a host that does not parse, and the -h flag.
CommandLines ==
  [valid : BOOLEAN, input : BOOLEAN, template : BOOLEAN,
   serve : {"none", "bad"}, help : BOOLEAN]

\* The contents of the input file when main is run.
MainDocs == { <<>>, Element(Heading(1), <<Text("Title")>>) }

InitMain ==
  /\ RenderIdle(<<>>)
  /\ pc = "main"
  /\ argv \in CommandLines
  /\ tmplFile \in { NoneOpt, Some(EscapedTemplate), Some(BrokenTemplate) }
  /\ srcFile \in { NoneOpt } \cup { Some(d) : d \in MainDocs }
  /\ output \in { NoneOpt, Some("report.html") }
  /\ outFile \in { "absent", "old" }
  /\ exit = NoneOpt
  /\ files = {}
  /\ served = NoRequest

\* main.rs:33-53 up to the call of file_output: opts.parse(..)?, the input
\* or usage (which returns Ok(())), the template read or built in,
\* host.parse()?.  The -h flag is declared and never read.
Main ==
  /\ pc = "main"
  /\ IF ~argv.valid
     THEN /\ result' = Some(Err(ArgError))
          /\ pc' = "failed"
          /\ UNCHANGED template
     ELSE IF ~argv.input
     THEN /\ result' = Some(Ok("unit"))
          /\ pc' = "usage"
          /\ UNCHANGED template
     ELSE IF argv.template /\ ~tmplFile.some
     THEN /\ result' = Some(Err(IoError))
          /\ pc' = "failed"
          /\ UNCHANGED template
     ELSE IF argv.serve = "bad"
     THEN /\ result' = Some(Err(ArgError))
          /\ pc' = "failed"
          /\ template' = (IF argv.template THEN tmplFile.v ELSE DefaultTemplate)
     ELSE /\ template' = (IF argv.template THEN tmplFile.v ELSE DefaultTemplate)
          /\ pc' = "read"
          /\ UNCHANGED result
  /\ UNCHANGED << input, iter, events, pulls, in_h1, hpos, heading,
                  content, rendered, sink >>
  /\ UNCHANGED envVars

NextMain ==
  \/ Main
  \/ ReadInput
  \/ CreateOutput
  \/ CreateOutputFails
  \/ TransformerNext
  \/ ExtractHeadingStep
  \/ PushHtml
  \/ RenderTemplate
  \/ OutputWrite
  \/ OutputWriteFails
  \/ Exit

SpecMain == InitMain /\ [][NextMain]_vars

\* C14: every failure of the command line ends in a non-zero exit status: a
\* missing positional input (help not asked for) exits non-zero, and status
\* 0 is returned only when a render succeeded or help was asked for.
C14_FailureExitsNonZero ==
  exit.some =>
    /\ (~argv.valid \/ (~argv.input /\ ~argv.help)) => exit.v # 0
    /\ exit.v = 0 => (pc = "done" \/ (pc = "usage" /\ argv.help))

(***************************************************************************)
(* File mode: the order of the read and the create.                        *)
(***************************************************************************)
\* C19: the file named by --output changes only by being created, only in
\* the step after the input was read with success, and that step is taken
\* at most once in a run: it is entered from the read alone and never again;
\* with the input missing the file is never created or truncated.
C19_ReadBeforeCreate ==
  [][ /\ outFile' # outFile =>
           /\ pc = "create"
           /\ output.some
           /\ srcFile.some
           /\ input = srcFile.v
           /\ outFile' = "created"
      /\ (pc' = "create" /\ pc # "create") => (pc = "read" /\ srcFile.some)
      /\ pc' = "read" => pc = "read"
      /\ ~srcFile.some => (outFile' = outFile /\ pc' # "create") ]_vars

\* C19 witness: a run on a missing input has failed and exited, the file
\* named by --output being there as it was.
C19_Witness ==
  /\ ~srcFile.some
  /\ output = Some("report.html")
  /\ outFile = "old"
  /\ pc = "failed"
  /\ exit = Some(1)

InitServeFs ==
  /\ \E tmpl \in Templates : RenderIdle(tmpl)
  /\ pc = "serving"
  /\ srcFile \in { NoneOpt } \cup { Some(d) : d \in ServeDocs }
  /\ output \in { NoneOpt, Some("report.html") }
  /\ files \in { {}, {"report.html"} }
  /\ outFile = IF output.some /\ output.v \in files THEN "old" ELSE "absent"
  /\ exit = NoneOpt
  /\ served = NoRequest
  /\ ArgsFor(template)

\* The environment: the file named by --template edited.  main has read it
\* once (main.rs:44-45); the closures hold the text it read (main.rs:79, 98).
EditTemplate ==
  /\ pc = "serving"
  /\ tmplFile.some
  /\ \E t \in Templates : tmplFile' = Some(t) /\ tmplFile' # tmplFile
  /\ UNCHANGED << argv, renderVars, srcFile, output, outFile, exit, files, served >>

NextServeFs ==
  \/ Request
  \/ EditSource
  \/ RemoveSource
  \/ EditTemplate

SpecServeFs == InitServeFs /\ [][NextServeFs]_vars

\* What the document closure answers for a source and a template text.
ExpectedDocument(src, tmpl) ==
  IF ~src.some THEN FileNotFound
  ELSE LET r == render_html(src.v, tmpl)
       IN IF r.result.ok
          THEN [status |-> 200, ctype |-> "text/html", body |-> r.buffer]
          ELSE [status |-> 400, ctype |-> "text/html", body |-> <<r.result.e>>]

\* C11 as stated: every entity of the pipeline, the template among them, is
\* created anew for a request: the response is made of the input file and
\* the template file as they are when the request is served.
C11_AllCreatedAnew ==
  (DocumentRequest /\ served.tmpl.some) =>
    served.resp = ExpectedDocument(served.src, served.tmpl.v)

\* C11 amended: the template text is the one main read at startup, whatever
\* the template file holds now; everything else is made for the request from
\* the input file as it is, and nothing of a render is kept after it.
C11_OnlyTemplateKept ==
  /\ DocumentRequest => served.resp = ExpectedDocument(served.src, template)
  /\ pc = "serving" =>
       /\ iter = <<>>
       /\ events = <<>>
       /\ content = <<>>
       /\ rendered = <<>>
       /\ sink = <<>>
       /\ ~heading.some

\* C11 witness: a document served with the template read at startup after
\* the template file was edited.
C11_Witness ==
  /\ DocumentRequest
  /\ served.tmpl.some
  /\ served.tmpl.v # template
  /\ served.resp.status = 200
  /\ served.edited

\* C20: serving a request leaves the input file, the template file, the
\* directory and the file named by --output as they are, creates no file,
\* and leaves --output, used as the route name, and the render's sink alone.
C20_NoFileSystemWrites ==
  [][ served' # served =>
        /\ srcFile' = srcFile
        /\ tmplFile' = tmplFile
        /\ files' = files
        /\ outFile' = outFile
        /\ output' = output
        /\ sink' = sink
        /\ exit' = exit ]_vars

\* C20 witness: with --output report.html and no such file, the document
\* was served at /report.html and no file has been created.
C20_Witness ==
  /\ served.some
  /\ output = Some("report.html")
  /\ served.path = "report.html"
  /\ Renders
  /\ served.resp = FreshDocument
  /\ files = {}
  /\ outFile = "absent"

=============================================================================
